---- MODULE Spec2Model ----
(***************************************************************************)
(* Model of the BuildXL sandbox core:                                      *)
(*   - the process-shim injector of SubstituteProcessExecution.cpp         *)
(*     (command splitting, shim decision, compiler heuristic, injection),  *)
(*   - the Linux file-access observer of bxl_observer.cpp                  *)
(*     (report framing and sending, exec/at reporting, path resolution).   *)
(* Strings are sequences of one-character strings; indices of the C++      *)
(* string operations are 0-based as in the source.                         *)
(***************************************************************************)
EXTENDS Integers, Sequences, FiniteSets, TLC

VARIABLES
    splitCall,      \* last FindApplicationNameFromCommandLine call: input and outcome
    shimCfg,        \* g_substituteProcessExecutionShimPath, g_pShimProcessMatches,
                    \* g_ProcessExecutionShimAllProcesses, g_SubstituteProcessExecutionPluginFunc
    minParEnv,      \* value of __ANYBUILD_MINPARALLELISM in the environment
    g_ParsedMinParallelism,
    g_MinParallelism,
    gmCalls,        \* the GetMinParallelism calls made: what each returned and
                    \* whether it read the environment
    rspFile,        \* bytes of the response file on disk
    shimCall,       \* last MaybeInjectSubstituteProcessShim call: inputs and outcome
    channel,        \* the report channel: what has been appended, in order
    sendCall,       \* last SendReport call: input and outcome
    obsEnv,         \* the observer's surroundings: cwd, fd table, symlinks
    obsCall,        \* the observer entry point being executed and its arguments
    obsPc,          \* position inside the entry point
    fullpath,       \* the path buffer resolve_path works on
    pFullpath,      \* resolve_path's cursor into fullpath (0-based)
    obsLog,         \* events and readlink probes issued, in order
    ctor            \* the observer's construction: environment, position, fields

vars == <<splitCall, shimCfg, minParEnv, g_ParsedMinParallelism, g_MinParallelism, gmCalls,
          rspFile, shimCall, channel, sendCall,
          obsEnv, obsCall, obsPc, fullpath, pFullpath, obsLog, ctor>>

splitVars == <<splitCall>>
shimVars == <<shimCfg, minParEnv, g_ParsedMinParallelism, g_MinParallelism, gmCalls,
              rspFile, shimCall>>
sendVars == <<channel, sendCall>>
obsVars == <<obsEnv, obsCall, obsPc, fullpath, pFullpath, obsLog>>
ctorVars == <<ctor>>

(***************************************************************************)
(* Bounds of the model.                                                    *)
(***************************************************************************)
MaxLineLen == 5

(***************************************************************************)
(* Generic helpers.                                                        *)
(***************************************************************************)
\* A null pointer to a string; a string is a sequence of characters.
NULL == <<"nullptr">>

MinOf(S) == CHOOSE x \in S : \A y \in S : x <= y

MaxOf(S) == CHOOSE x \in S : \A y \in S : x >= y

RECURSIVE SeqsUpTo(_, _)
SeqsUpTo(A, n) ==
    IF n = 0 THEN {<<>>}
    ELSE LET shorter == SeqsUpTo(A, n - 1)
         IN shorter \cup {Append(s, c) : s \in {t \in shorter : Len(t) = n - 1}, c \in A}

(***************************************************************************)
(* std::wstring operations used by the source.                             *)
(***************************************************************************)
npos == -1

\* wstring::find(ch, pos): index of the first ch at or after pos.
find(s, ch, pos) ==
    LET hits == {i \in pos..(Len(s) - 1) : s[i + 1] = ch}
    IN IF hits = {} THEN npos ELSE MinOf(hits)

\* wstring::substr(pos, n) throws std::out_of_range when pos > size().
substr_throws(s, pos) == pos > Len(s)

substr(s, pos, n) ==
    LET last == IF pos + n > Len(s) THEN Len(s) ELSE pos + n
    IN SubSeq(s, pos + 1, last)

substr_from(s, pos) == SubSeq(s, pos + 1, Len(s))

(***************************************************************************)
(* trim_start / trim_end / trim_inplace.                                   *)
(***************************************************************************)
Whitespace == {" ", "\t", "\n", "\r"}

\* Index (0-based) of the first character not in Whitespace; the terminating
\* NUL stops the scan, so the result is Len(s) for an all-whitespace string.
trim_start(s) ==
    LET stops == {i \in 0..(Len(s) - 1) : s[i + 1] \notin Whitespace}
    IN IF stops = {} THEN Len(s) ELSE MinOf(stops)

\* trim_end walks back from the end while end[-1] is whitespace. It has no
\* lower limit: on an empty or all-whitespace string it reads the element
\* before the buffer (undefined behaviour).
trim_end_reads_before_buffer(s) == \A i \in 1..Len(s) : s[i] \in Whitespace

trim_end(s) == MaxOf({i \in 1..Len(s) : s[i] \notin Whitespace})

\* Outcomes of trim_inplace(str): the set of [ub, str] the build can produce.
\*  - a string with a non-whitespace character: trimmed at both ends;
\*  - the empty string: end[-1] is read out of bounds; the string stays empty
\*    when that element is no whitespace, anything else otherwise;
\*  - a non-empty all-whitespace string: the out-of-bounds read, and then an
\*    end pointer before the start pointer.
trim_inplace(s) ==
    IF ~trim_end_reads_before_buffer(s)
    THEN {[ub |-> FALSE, str |-> SubSeq(s, trim_start(s) + 1, trim_end(s))]}
    ELSE IF s = <<>>
         THEN {[ub |-> FALSE, str |-> <<>>], [ub |-> TRUE, str |-> <<>>]}
         ELSE {[ub |-> TRUE, str |-> <<>>]}

(***************************************************************************)
(* FindApplicationNameFromCommandLine: the set of outcomes of one call.    *)
(* status is "ok" (returned), "out_of_range" (substr threw) or "ub".       *)
(***************************************************************************)
SplitOk(cmd, args) == [status |-> "ok", command |-> cmd, commandArgs |-> args]

SplitThrow == [status |-> "out_of_range", command |-> <<>>, commandArgs |-> <<>>]

SplitUb == [status |-> "ub", command |-> <<>>, commandArgs |-> <<>>]

\* command already assigned; commandArgs = line.substr(pos); trim_inplace(commandArgs)
SplitArgsFrom(line, cmd, pos) ==
    IF substr_throws(line, pos) THEN {SplitThrow}
    ELSE {IF t.ub THEN SplitUb ELSE SplitOk(cmd, t.str) :
            t \in trim_inplace(substr_from(line, pos))}

\* command = raw; trim_inplace(command); commandArgs = wstring()
SplitCommandOnly(raw) ==
    {IF t.ub THEN SplitUb ELSE SplitOk(t.str, <<>>) : t \in trim_inplace(raw)}

FindApplicationNameFromCommandLine(line) ==
    IF Len(line) = 0 THEN {SplitOk(<<>>, <<>>)}
    ELSE IF line[1] = "\""
    THEN LET closeQuoteIndex == find(line, "\"", 1)
         IN IF closeQuoteIndex = npos
            THEN SplitCommandOnly(substr_from(line, 1))
            ELSE IF closeQuoteIndex = Len(line) - 1
            THEN SplitCommandOnly(substr(line, 1, Len(line) - 2))
            ELSE LET noQuoteCommand == substr(line, 1, closeQuoteIndex - 1)
                     found == find(line, " ", closeQuoteIndex + 1)
                     spaceDelimiterIndex == IF found = npos THEN Len(line) ELSE found
                     raw == noQuoteCommand \o
                            substr(line, closeQuoteIndex + 1,
                                   spaceDelimiterIndex - closeQuoteIndex - 1)
                 IN UNION {IF t.ub THEN {SplitUb}
                           ELSE SplitArgsFrom(line, t.str, spaceDelimiterIndex + 1) :
                           t \in trim_inplace(raw)}
    ELSE LET found == find(line, " ", 0)
             spaceDelimiterIndex == IF found = npos THEN Len(line) ELSE found
         IN SplitArgsFrom(line, substr(line, 0, spaceDelimiterIndex),
                          spaceDelimiterIndex + 1)

(***************************************************************************)
(* C string helpers of the shim decision.                                  *)
(***************************************************************************)
NUL == "NUL"    \* the character (or byte) with code 0

UpperLetters ==
    <<"A", "B", "C", "D", "E", "F", "G", "H", "I", "J", "K", "L", "M",
      "N", "O", "P", "Q", "R", "S", "T", "U", "V", "W", "X", "Y", "Z">>

LowerLetters ==
    <<"a", "b", "c", "d", "e", "f", "g", "h", "i", "j", "k", "l", "m",
      "n", "o", "p", "q", "r", "s", "t", "u", "v", "w", "x", "y", "z">>

towlower(c) ==
    IF \E i \in 1..Len(UpperLetters) : UpperLetters[i] = c
    THEN LowerLetters[CHOOSE i \in 1..Len(UpperLetters) : UpperLetters[i] = c]
    ELSE c

\* _wcsicmp(a, b) == 0
wcsicmp_equal(a, b) ==
    /\ Len(a) = Len(b)
    /\ \A i \in 1..Len(a) : towlower(a[i]) = towlower(b[i])

\* What a C string function sees of a buffer: the characters before the first NUL.
CStr(s) ==
    LET nuls == {i \in 1..Len(s) : s[i] = NUL}
    IN IF nuls = {} THEN s ELSE SubSeq(s, 1, MinOf(nuls) - 1)

\* wcsstr / strstr from offset `from`: index of the first occurrence, or npos.
wcsstr(s, f, from) ==
    LET c == CStr(s)
        hits == {i \in from..(Len(c) - Len(f)) : SubSeq(c, i + 1, i + Len(f)) = f}
    IN IF hits = {} THEN npos ELSE MinOf(hits)

RECURSIVE CountMatchesFrom(_, _, _, _)
CountMatchesFrom(s, f, findLen, current) ==
    LET hit == wcsstr(s, f, current)
    IN IF hit = npos THEN 0
       ELSE 1 + CountMatchesFrom(s, f, findLen, hit + findLen)

CountMatches(s, f, findLen) == CountMatchesFrom(s, f, findLen, 0)

CommandArgsContainMatch(commandArgs, argMatch) ==
    IF argMatch = NULL THEN TRUE
    ELSE wcsstr(commandArgs, argMatch, 0) # npos

(***************************************************************************)
(* GetMinParallelism: the set of [ret, parsed, min] one call can produce   *)
(* from the cache (parsed, min) and the environment value env, which is    *)
(* NULL when the variable is unset and its text otherwise.                 *)
(***************************************************************************)
MinParallelismStrSize == 16

Digits == <<"0", "1", "2", "3", "4", "5", "6", "7", "8", "9">>

IsDigit(c) == \E i \in 1..Len(Digits) : Digits[i] = c

DigitValue(c) == (CHOOSE i \in 1..Len(Digits) : Digits[i] = c) - 1

\* _wtoi on an unsigned decimal text: the value of its leading digits, 0 if none.
RECURSIVE wtoiFrom(_, _, _)
wtoiFrom(s, i, acc) ==
    IF i > Len(s) \/ ~IsDigit(s[i]) THEN acc
    ELSE wtoiFrom(s, i + 1, acc * 10 + DigitValue(s[i]))

wtoi(s) == wtoiFrom(s, 1, 0)

\* Values _wtoi can give on the uninitialized minParallelismStr buffer.
UninitializedInts == {0, 1, 3}

\* GetEnvironmentVariable: 0 when unset, the length when the value fits the
\* buffer with its terminator, the needed size (length + 1) when it does not.
GetEnvironmentVariableRet(env, size) ==
    IF env = NULL THEN 0
    ELSE IF Len(env) < size THEN Len(env) ELSE Len(env) + 1

GetMinParallelism(parsed, min, env) ==
    IF parsed THEN {[ret |-> min, parsed |-> parsed, min |-> min]}
    ELSE IF GetEnvironmentVariableRet(env, MinParallelismStrSize) <= MinParallelismStrSize
         THEN IF env = NULL
              THEN {[ret |-> g, parsed |-> TRUE, min |-> g] : g \in UninitializedInts}
              ELSE {[ret |-> wtoi(env), parsed |-> TRUE, min |-> wtoi(env)]}
         ELSE {[ret |-> min, parsed |-> FALSE, min |-> min]}

(***************************************************************************)
(* The match loop of ShouldSubstituteShim over g_pShimProcessMatches.      *)
(***************************************************************************)
ProcessMatchHits(pMatch, command, commandArgs) ==
    LET processName == pMatch.ProcessName
        processLen == Len(processName)
        commandLen == Len(command)
    IN IF processLen < commandLen
       THEN /\ command[commandLen - processLen] = "\\"
            /\ wcsicmp_equal(substr_from(command, commandLen - processLen), processName)
            /\ CommandArgsContainMatch(commandArgs, pMatch.ArgumentMatch)
       ELSE IF processLen = commandLen
       THEN /\ wcsicmp_equal(processName, command)
            /\ CommandArgsContainMatch(commandArgs, pMatch.ArgumentMatch)
       ELSE FALSE

\* The loop stops at the first hit; only whether there is one is kept.
FoundMatch(matches, command, commandArgs) ==
    \E i \in 1..Len(matches) : ProcessMatchHits(matches[i], command, commandArgs)

(***************************************************************************)
(* The compiler heuristic of ShouldSubstituteShim (the cl.exe branch).     *)
(***************************************************************************)
Pattern_cpp == <<".", "c", "p", "p">>

Pattern_c == <<".", "c", " ">>

Pattern_idl == <<".", "i", "d", "l">>

Name_cl_exe == <<"c", "l", ".", "e", "x", "e">>

\* The three CountMatches calls summed, on commandArgs or on the file text.
CountInputs(s) ==
    CountMatches(s, Pattern_cpp, 4) + CountMatches(s, Pattern_c, 3)
        + CountMatches(s, Pattern_idl, 4)

\* s[i] of a wstring for i <= size(): the terminator at i = size().
CharAt(s, i) == IF i < Len(s) THEN s[i + 1] ELSE NUL

\* A size_t count: a negative difference has wrapped to a huge value and is cut
\* to what is available, as is any count past the end.
ClampCount(n, avail) == IF n < 0 \/ n > avail THEN avail ELSE n

\* Where the @response-file token is and which path it names:
\* [start, end, path] with start = npos when commandArgs holds no '@'.
ResponseFileArg(commandArgs) ==
    LET responseFileArgStart == find(commandArgs, "@", 0)
    IN IF responseFileArgStart = npos
       THEN [start |-> npos, end |-> 0, path |-> <<>>]
       ELSE IF CharAt(commandArgs, responseFileArgStart + 1) = "\""
       THEN LET quoteEnd == find(commandArgs, "\"", responseFileArgStart + 2)
                from == responseFileArgStart + 2
                n == ClampCount(quoteEnd - responseFileArgStart - 2,
                                Len(commandArgs) - from)
            IN [start |-> responseFileArgStart,
                end |-> quoteEnd + 1,
                path |-> substr(commandArgs, from, n)]
       ELSE LET spaceEnd == find(commandArgs, " ", responseFileArgStart + 1)
                responseFileArgEnd ==
                    IF spaceEnd = npos THEN Len(commandArgs) ELSE spaceEnd
            IN [start |-> responseFileArgStart,
                end |-> responseFileArgEnd,
                path |-> substr(commandArgs, responseFileArgStart + 1,
                                responseFileArgEnd - responseFileArgStart - 1)]

\* CreateFile(OPEN_ALWAYS) + ReadFile: the bytes of the file, an empty file
\* being created when there is none of that name.
RspFileName == <<"r">>

ReadResponseFile(path, file) == IF path = RspFileName THEN file ELSE <<>>

\* The file starts with the UTF-16LE byte-order mark FF FE.
HasBom(bytes) == Len(bytes) >= 2 /\ bytes[1] = "FF" /\ bytes[2] = "FE"

\* (wchar_t *)(pText + 2): the buffer read as 16-bit units, low byte first.
\* A unit whose high byte is 0 is the character of its low byte.
WideUnit(lo, hi) == IF hi = NUL THEN lo ELSE <<lo, hi>>

WideRsp(pText) ==
    LET n == (Len(pText) - 2) \div 2
    IN [i \in 1..n |-> WideUnit(pText[2 * i + 1], pText[2 * i + 2])]

\* wstring::replace(pos, n, ptr, count)
replace(s, pos, n, src, count) ==
    LET cut == ClampCount(n, Len(s) - pos)
    IN SubSeq(s, 1, pos) \o SubSeq(src, 1, count) \o SubSeq(s, pos + cut + 1, Len(s))

\* What stands for the characters read through the null wideRsp pointer.
GarbageChar == "?"

Decision(result, commandArgs, replaceName, foundMatch, heuristic, numInputs, calledGetMin) ==
    [status |-> "ok", result |-> result, commandArgs |-> commandArgs,
     replaceCommandNameForTrackedBuildEngine |-> replaceName,
     foundMatch |-> foundMatch, heuristic |-> heuristic,
     numInputs |-> numInputs, calledGetMin |-> calledGetMin]

\* Lines 356-460: gm is the outcome of the GetMinParallelism call made.
CompilerHeuristic(commandArgs, file, gm) ==
    LET rsp == ResponseFileArg(commandArgs)
        hasRsp == rsp.start # npos
        bytes == ReadResponseFile(rsp.path, file)
        fileSize == Len(bytes)
        pText == bytes \o <<NUL, NUL>>
        wide == HasBom(bytes)
        wideRsp == WideRsp(pText)
        counted == CountInputs(commandArgs)
                   + (IF ~hasRsp THEN 0
                      ELSE IF wide THEN CountInputs(wideRsp)
                      ELSE CountInputs(pText))
        numInputs == IF counted < 1 THEN 1 ELSE counted
        minParallelism == gm.ret
        n == rsp.end - rsp.start
    IN IF numInputs >= minParallelism
       THEN IF ~hasRsp
            THEN {Decision(TRUE, commandArgs, TRUE, TRUE, TRUE, numInputs, TRUE)}
            ELSE IF wide
            THEN {Decision(TRUE,
                           replace(commandArgs, rsp.start, n, wideRsp, fileSize \div 2 - 1),
                           TRUE, TRUE, TRUE, numInputs, TRUE)}
            ELSE IF fileSize \div 2 = 0
            THEN {Decision(TRUE, replace(commandArgs, rsp.start, n, <<>>, 0),
                           TRUE, TRUE, TRUE, numInputs, TRUE)}
            \* replace() reads fileSize / 2 characters through wideRsp == nullptr:
            \* an access violation, or whatever lies there.
            ELSE {[Decision(TRUE, commandArgs, TRUE, TRUE, TRUE, numInputs, TRUE)
                      EXCEPT !.status = "access_violation"],
                  [Decision(TRUE,
                            replace(commandArgs, rsp.start, n,
                                    [i \in 1..(fileSize \div 2) |-> GarbageChar],
                                    fileSize \div 2),
                            TRUE, TRUE, TRUE, numInputs, TRUE)
                      EXCEPT !.status = "ub"]}
       ELSE {Decision(FALSE, commandArgs, TRUE, TRUE, TRUE, numInputs, TRUE)}

\* command ends in cl.exe, compared without case (line 354).
EndsWithClExe(command) ==
    /\ Len(command) >= 6
    /\ wcsicmp_equal(substr_from(command, Len(command) - 6), Name_cl_exe)

(***************************************************************************)
(* ShouldSubstituteShim: the set of outcomes of one call. pluginRet is     *)
(* what the plugin returns if it is called, gm what GetMinParallelism      *)
(* returns if it is called.                                                *)
(***************************************************************************)
\* Mutant of PluginOnlyResult: the filter is taken as inclusive whatever
\* g_ProcessExecutionShimAllProcesses is.
PluginOnlyResult_AlwaysInclusive(filterMatch, all) == filterMatch

\* Line 293: no matches to compare, the plugin alone decides.
PluginOnlyResult(filterMatch, all) == (filterMatch /\ ~all) \/ (~filterMatch /\ all)

ShouldSubstituteShim(cfg, command, commandArgs, pluginRet, gm, file) ==
    LET all == cfg.shimAllProcesses
    IN IF cfg.matches.null \/ cfg.matches.list = <<>>
       THEN IF cfg.plugin
            THEN {Decision(PluginOnlyResult(pluginRet, all),
                           commandArgs, FALSE, FALSE, FALSE, 0, FALSE)}
            ELSE {Decision(all, commandArgs, FALSE, FALSE, FALSE, 0, FALSE)}
       ELSE LET foundMatch == FoundMatch(cfg.matches.list, command, commandArgs)
                filterMatch == IF cfg.plugin THEN pluginRet ELSE all
            IN IF all
               THEN {Decision(~foundMatch /\ ~filterMatch,
                              commandArgs, FALSE, foundMatch, FALSE, 0, FALSE)}
               ELSE IF foundMatch /\ EndsWithClExe(command)
               THEN CompilerHeuristic(commandArgs, file, gm)
               ELSE {Decision(foundMatch \/ filterMatch,
                              commandArgs, FALSE, foundMatch, FALSE, 0, FALSE)}

(***************************************************************************)
(* InjectShim: the arguments it passes to Real_CreateProcessW.             *)
(***************************************************************************)
\* wstring::find_last_of(ch) / wcsrchr: index of the last ch, or npos.
find_last_of(s, ch) ==
    LET hits == {i \in 0..(Len(s) - 1) : s[i + 1] = ch}
    IN IF hits = {} THEN npos ELSE MaxOf(hits)

\* Lines 50-53.
FullCommandLine(commandWithoutQuotes, argumentsWithoutCommand) ==
    <<"\"">> \o CStr(commandWithoutQuotes) \o <<"\"", " ">>
        \o CStr(argumentsWithoutCommand)

\* Lines 62-83: the shim's directory followed by the command's file name.
ShimWithChangedFileName(shimPath, commandWithoutQuotes) ==
    LET lastSep == find_last_of(commandWithoutQuotes, "\\")
        commandFileNameStartIndex == IF lastSep # npos THEN lastSep + 1 ELSE 0
        shimSep == find_last_of(shimPath, "\\")
        shimFileNameStart == IF shimSep # npos THEN shimSep + 1 ELSE 0
    IN SubSeq(shimPath, 1, shimFileNameStart)
           \o CStr(substr_from(commandWithoutQuotes, commandFileNameStartIndex))

InjectShim(shimPath, commandWithoutQuotes, argumentsWithoutCommand, replaceCommandNameForTrackedBuildEngine) ==
    LET fullCommandLine == FullCommandLine(commandWithoutQuotes, argumentsWithoutCommand)
        \* wstring shimWithChangedFileName starts empty and is assigned only
        \* inside the if.
        shimWithChangedFileName ==
            IF replaceCommandNameForTrackedBuildEngine
            THEN ShimWithChangedFileName(shimPath, commandWithoutQuotes)
            ELSE <<>>
        shimCommandLine ==
            IF replaceCommandNameForTrackedBuildEngine
            THEN shimWithChangedFileName
            ELSE shimPath
    IN [lpApplicationName |-> shimWithChangedFileName,
        lpCommandLine |-> fullCommandLine,
        shimCommandLine |-> shimCommandLine]

(***************************************************************************)
(* MaybeInjectSubstituteProcessShim: one call, from entry to return or to  *)
(* the exception / fault that ends it.                                     *)
(***************************************************************************)
NoDecision ==
    [Decision(FALSE, <<>>, FALSE, FALSE, FALSE, 0, FALSE) EXCEPT !.status = "none"]

NoSplit == [status |-> "none", command |-> <<>>, commandArgs |-> <<>>]

\* injectedShim is "unset" while the out-parameter has not been assigned;
\* ret is "none" when the function did not return.
CallRecord(app, line, status, injected, ret, invoked, split, dec, pluginRet) ==
    [lpApplicationName |-> app, lpCommandLine |-> line, status |-> status,
     injectedShim |-> injected, ret |-> ret, invoked |-> invoked,
     split |-> split, decision |-> dec, pluginRet |-> pluginRet]

NoCall == CallRecord(NULL, NULL, "idle", "unset", "none", <<>>, NoSplit, NoDecision, FALSE)

\* One call of GetMinParallelism as gmCalls keeps it: the environment is
\* read when the cache is not marked parsed.
GetMinCall(gm, parsed) == [ret |-> gm.ret, read |-> ~parsed]

PendingCall(app, line) ==
    CallRecord(app, line, "pending", "unset", "none", <<>>, NoSplit, NoDecision, FALSE)

MaybeInjectSubstituteProcessShim(lpApplicationName, lpCommandLine) ==
    /\ shimCall.status = "pending"
    /\ UNCHANGED <<shimCfg, minParEnv, rspFile>>
    /\ IF shimCfg.shimPath # NULL /\ (lpCommandLine # NULL \/ lpApplicationName # NULL)
       THEN \E sp \in FindApplicationNameFromCommandLine(
                        IF lpCommandLine = NULL THEN lpApplicationName ELSE lpCommandLine),
               pluginRet \in BOOLEAN,
               gm \in GetMinParallelism(g_ParsedMinParallelism, g_MinParallelism, minParEnv) :
            IF sp.status # "ok"
            THEN /\ shimCall' = CallRecord(lpApplicationName, lpCommandLine, sp.status,
                                           "unset", "none", <<>>, sp, NoDecision, FALSE)
                 /\ UNCHANGED <<g_ParsedMinParallelism, g_MinParallelism, gmCalls>>
            ELSE \E dec \in ShouldSubstituteShim(shimCfg, sp.command, sp.commandArgs,
                                                 pluginRet, gm, rspFile),
                    rv \in BOOLEAN :
                 /\ IF dec.calledGetMin
                    THEN /\ g_ParsedMinParallelism' = gm.parsed
                         /\ g_MinParallelism' = gm.min
                         /\ gmCalls' = Append(gmCalls, GetMinCall(gm, g_ParsedMinParallelism))
                    ELSE UNCHANGED <<g_ParsedMinParallelism, g_MinParallelism, gmCalls>>
                 /\ IF dec.status # "ok"
                    THEN shimCall' = CallRecord(lpApplicationName, lpCommandLine,
                                                dec.status, "unset", "none", <<>>,
                                                sp, dec, shimCfg.plugin /\ pluginRet)
                    ELSE IF dec.result
                    THEN shimCall' =
                               CallRecord(lpApplicationName, lpCommandLine, "returned",
                                          TRUE, rv,
                                          <<InjectShim(shimCfg.shimPath, sp.command,
                                                       dec.commandArgs,
                                                       dec.replaceCommandNameForTrackedBuildEngine)>>,
                                          sp, dec, shimCfg.plugin /\ pluginRet)
                    ELSE shimCall' = CallRecord(lpApplicationName, lpCommandLine,
                                                "returned", FALSE, FALSE, <<>>,
                                                sp, dec, shimCfg.plugin /\ pluginRet)
       ELSE /\ shimCall' = CallRecord(lpApplicationName, lpCommandLine, "returned",
                                      FALSE, FALSE, <<>>, NoSplit, NoDecision, FALSE)
            /\ UNCHANGED <<g_ParsedMinParallelism, g_MinParallelism, gmCalls>>

(***************************************************************************)
(* Inputs of the shim injector: configurations, command lines, response    *)
(* files and environment values the calls are drawn from.                  *)
(***************************************************************************)
MaxArgTokens == 2

Path_shim == <<"c", ":", "\\", "s", "\\", "s", "h", "i", "m", ".", "e", "x", "e">>

Name_cmd_exe == <<"c", "m", "d", ".", "e", "x", "e">>

Name_Tracker_exe == <<"T", "r", "a", "c", "k", "e", "r", ".", "e", "x", "e">>

Arg_slash_c == <<"/", "c">>

\* g_pShimProcessMatches: a null pointer, or a pointer to the list.
MatchesNull == [null |-> TRUE, list |-> <<>>]

MatchesList(list) == [null |-> FALSE, list |-> list]

MatchesCmd == <<[ProcessName |-> Name_cmd_exe, ArgumentMatch |-> NULL]>>

MatchesCompiler ==
    <<[ProcessName |-> Name_cmd_exe, ArgumentMatch |-> Arg_slash_c],
      [ProcessName |-> Name_cl_exe, ArgumentMatch |-> NULL],
      [ProcessName |-> Name_Tracker_exe, ArgumentMatch |-> NULL]>>

CommandForms ==
    { <<"c", ":", "\\", "w", "\\", "c", "m", "d", ".", "e", "x", "e">>,
      Name_cmd_exe,
      <<"n", "o", "t", "c", "m", "d", ".", "e", "x", "e">>,
      <<"C", "L", ".", "e", "x", "e">>,
      <<"\"", "c", ":", "\\", "p", " ", "f", "\\", "c", "l", ".", "e", "x", "e", "\"">>,
      Name_Tracker_exe }

ArgTokens ==
    { Arg_slash_c,
      <<"a", ".", "c", "p", "p">>,
      <<"b", ".", "c">>,
      <<"i", ".", "i", "d", "l">>,
      <<"@", "r">>,
      <<"@", "\"", "r", "\"">>,
      Name_cl_exe }

RECURSIVE JoinTokens(_)
JoinTokens(ts) ==
    IF Len(ts) = 0 THEN <<>>
    ELSE IF Len(ts) = 1 THEN ts[1]
    ELSE ts[1] \o <<" ">> \o JoinTokens(Tail(ts))

\* Nothing after the command, or a space and up to MaxArgTokens arguments.
ArgTails ==
    {<<>>} \cup {<<" ">> \o JoinTokens(ts) : ts \in SeqsUpTo(ArgTokens, MaxArgTokens)}

CommandLines == {c \o t : c \in CommandForms, t \in ArgTails}

\* (lpApplicationName, lpCommandLine) pairs of the calls.
CallInputs ==
    {<<NULL, NULL>>, <<Name_cmd_exe, NULL>>}
        \cup {<<NULL, l>> : l \in CommandLines}
        \cup {<<Name_cmd_exe, c>> : c \in CommandForms}

\* A text as the bytes of a UTF-16LE file with its byte-order mark.
Utf16LeFile(text) ==
    <<"FF", "FE">> \o [i \in 1..(2 * Len(text)) |->
                          IF i % 2 = 1 THEN text[(i + 1) \div 2] ELSE NUL]

Text_two_cpp == <<"a", ".", "c", "p", "p", " ", "b", ".", "c", "p", "p">>

Text_c_idl == <<"x", ".", "c", " ", "y", ".", "i", "d", "l">>

RspFiles ==
    { <<>>, Text_two_cpp, Utf16LeFile(Text_two_cpp), Utf16LeFile(Text_c_idl) }

MinParEnvValues ==
    { NULL, <<"1">>, <<"3">>, <<"x">>, [i \in 1..MinParallelismStrSize |-> "1"] }

ShimCfg(shimPath, matches, all, plugin) ==
    [shimPath |-> shimPath, matches |-> matches, shimAllProcesses |-> all,
     plugin |-> plugin]

CompilerCommandForms == {c \in CommandForms : wcsstr(c, <<".", "e", "x", "e">>, 0) # npos
                                              /\ wcsstr(c, <<"c", "m", "d">>, 0) = npos}

CompilerCallInputs ==
    {<<NULL, c \o t>> : c \in CompilerCommandForms, t \in ArgTails}

\* No shim configured; every configuration with a shim, one environment and
\* one file; the compiler configuration with every environment and file.
ShimInits ==
    {[cfg |-> ShimCfg(NULL, MatchesList(MatchesCmd), FALSE, FALSE), env |-> <<"2">>,
      file |-> Utf16LeFile(Text_two_cpp), inputs |-> CallInputs]}
    \cup
    {[cfg |-> ShimCfg(Path_shim, m, a, f), env |-> <<"2">>,
      file |-> Utf16LeFile(Text_two_cpp), inputs |-> CallInputs] :
        m \in {MatchesNull, MatchesList(<<>>), MatchesList(MatchesCmd),
               MatchesList(MatchesCompiler)},
        a \in BOOLEAN, f \in BOOLEAN}
    \cup
    {[cfg |-> ShimCfg(Path_shim, MatchesList(MatchesCompiler), FALSE, FALSE),
      env |-> e, file |-> b, inputs |-> CompilerCallInputs] :
        e \in MinParEnvValues, b \in RspFiles}

(***************************************************************************)
(* BxlObserver::Send and BxlObserver::SendReport.                          *)
(* A record is known by its lengths: what the channel holds is, per write, *)
(* the value of the 4-byte prefix of the buffer written and the number of  *)
(* bytes of that buffer that reached the channel.                          *)
(***************************************************************************)
PIPE_BUF == 4096

PrefixLength == 4

\* numWritten < bufsiz with numWritten a ssize_t and bufsiz a size_t: the
\* signed operand is converted to size_t, so a negative numWritten becomes a
\* value above every bufsiz that passed the PIPE_BUF test.
SizeTLess(numWritten, bufsiz) == IF numWritten < 0 THEN FALSE ELSE numWritten < bufsiz

\* Line 106.
RecordTooLarge(bufsiz) == bufsiz > PIPE_BUF

\* Mutant of MessageTruncated: the truncation test is left out.
MessageTruncated_Never(numWritten, maxMessageLength) == FALSE

\* Line 143.
MessageTruncated(numWritten, maxMessageLength) == numWritten = maxMessageLength

\* Send(buf, bufsiz) where buf starts with the prefix value `prefix`.
\* hasOpen: real_open was found; openOk: real_open succeeded; written: what
\* real_write returns. Result: [status, appended], appended being the chunks
\* added to the channel.
Send(prefix, bufsiz, hasOpen, openOk, written) ==
    IF ~hasOpen THEN [status |-> "fatal", reason |-> "no_open", appended |-> <<>>]
    ELSE IF RecordTooLarge(bufsiz)
    THEN [status |-> "fatal", reason |-> "too_large", appended |-> <<>>]
    ELSE IF ~openOk THEN [status |-> "fatal", reason |-> "open", appended |-> <<>>]
    ELSE LET appended == IF written > 0
                         THEN <<[prefix |-> prefix, bytes |-> written]>>
                         ELSE <<>>
         IN IF SizeTLess(written, bufsiz)
            THEN [status |-> "fatal", reason |-> "short_write", appended |-> appended]
            ELSE [status |-> "true", reason |-> "sent", appended |-> appended]

kOpProcessTreeCompleted == "kOpProcessTreeCompleted"

\* SendReport(report): report.formatted is the length of the text
\* "<progname>|<pid>|...|<path>\n" that snprintf formats, which is what
\* snprintf returns whether or not the text fits.
SendReport(report, hasOpen, openOk, written) ==
    IF report.operation = kOpProcessTreeCompleted
    THEN [status |-> "true", reason |-> "skipped", appended |-> <<>>]
    ELSE LET maxMessageLength == PIPE_BUF - PrefixLength
             numWritten == report.formatted
         IN IF MessageTruncated(numWritten, maxMessageLength)
            THEN [status |-> "fatal", reason |-> "truncated", appended |-> <<>>]
            ELSE Send(numWritten, numWritten + PrefixLength, hasOpen, openOk, written)

NoSend ==
    [status |-> "idle", reason |-> "idle", appended |-> <<>>,
     report |-> [operation |-> "none", formatted |-> 0],
     hasOpen |-> TRUE, openOk |-> TRUE, written |-> 0, before |-> <<>>]

(***************************************************************************)
(* The observer's entry points: report_exec, report_access_at,             *)
(* normalize_path_at, and resolve_path, one loop iteration per step.       *)
(* obsLog records, in order, every stat (get_mode), every readlink probe   *)
(* and every event handed to report_access(syscallName, event).            *)
(***************************************************************************)
\* obsLog keeps the first MaxLogLen entries (and the step that crosses that
\* length): a path through a link that leads back to itself is resolved for
\* ever, reporting the link every round.
MaxLogLen == 24

AT_FDCWD == -100

O_NOFOLLOW == "O_NOFOLLOW"

\* What real_readlink / fd_to_path give when the call returns -1.
ReadlinkFails == <<"-1">>

\* cwd: what getcwd gives, empty when it fails. links: the symbolic links of
\* the file system, [from, to]. Descriptor 3 is an open directory, the
\* readlink of descriptor 5 gives length 0, and any other descriptor has no
\* /proc/self/fd entry.
Path_fd3 == <<"/", "c">>

ObsEnv(cwd, links) == [cwd |-> cwd, links |-> links]

real_readlink(links, path) ==
    IF \E l \in links : l.from = path
    THEN (CHOOSE l \in links : l.from = path).to
    ELSE ReadlinkFails

fd_to_path(env, fd) ==
    IF fd = 3 THEN Path_fd3 ELSE IF fd = 5 THEN <<>> ELSE ReadlinkFails

LogEntry(kind, type, path) == [kind |-> kind, type |-> type, path |-> path]

\* report_access(syscallName, eventType, reportPath, secondPath): get_mode on
\* the path, then the event.
report_access(eventType, reportPath) ==
    <<LogEntry("stat", "-", reportPath), LogEntry("event", eventType, reportPath)>>

\* `while (*--pStr != '/')`: the last slash before position p.
find_prev_slash(s, p) == MaxOf({i \in 0..(p - 1) : s[i + 1] = "/"})

\* shift_left(str, n): the text from position str on moves n places left.
shift_left(s, str, n) == SubSeq(s, 1, str - n) \o SubSeq(s, str + 1, Len(s))

ResolveState(s, p, done, log) ==
    [fullpath |-> s, pFullpath |-> p, done |-> done, log |-> log]

\* One iteration of resolve_path's while (true) loop.
ResolveStep(s, p, followFinalSymlink, links) ==
    LET ch == CharAt(s, p)
        pPrevSlash == find_prev_slash(s, p)
        parentDirLen == p - pPrevSlash - 1
    IN IF ch = "/" /\ parentDirLen = 0
       THEN ResolveState(shift_left(s, p + 1, 1), p, FALSE, <<>>)
       ELSE IF ch = "/" /\ parentDirLen = 1 /\ CharAt(s, p - 1) = "."
       THEN ResolveState(shift_left(s, p + 1, 2), p - 1, FALSE, <<>>)
       ELSE IF ch = "/" /\ parentDirLen = 2 /\ CharAt(s, p - 1) = "."
                /\ CharAt(s, p - 2) = "."
       THEN LET prev == IF pPrevSlash > 0 THEN find_prev_slash(s, pPrevSlash)
                        ELSE pPrevSlash
                shiftLen == p - prev
            IN ResolveState(shift_left(s, p + 1, shiftLen), prev + 1, FALSE, <<>>)
       ELSE LET probes == ch = "/" \/ (ch = NUL /\ followFinalSymlink)
                prefix == SubSeq(s, 1, p)
                target == IF probes THEN real_readlink(links, prefix) ELSE ReadlinkFails
                probeLog == IF probes THEN <<LogEntry("readlink", "-", prefix)>> ELSE <<>>
            IN IF target = ReadlinkFails
               THEN IF ch = NUL
                    THEN ResolveState(s, p, TRUE, probeLog)
                    ELSE ResolveState(s, p + 1, FALSE, probeLog)
               ELSE LET rest == IF target[Len(target)] = "/" /\ ch = "/"
                                THEN substr_from(s, p + 1)
                                ELSE substr_from(s, p)
                        readlinkBuf == target \o rest
                        log == probeLog \o report_access("ReadLink", prefix)
                    IN IF target[1] = "/"
                       THEN ResolveState(readlinkBuf, 1, FALSE, log)
                       ELSE LET q == find_prev_slash(s, p)
                            IN ResolveState(SubSeq(s, 1, q + 1) \o readlinkBuf,
                                            q + 1, FALSE, log)

\* normalize_path_at up to its call of resolve_path: [status, fullpath],
\* status "resolve" (resolve_path is entered on fullpath), "return"
\* (pathname == NULL: the descriptor's path is returned), "fatal", or "ub":
\* len is a size_t, so the -1 of a failed fd_to_path passes `len <= 0`,
\* fullpath[len] is written outside the buffer and pathname is copied to
\* the start of fullpath.
normalize_path_at(env, dirfd, pathname) ==
    IF pathname = NULL
    THEN [status |-> "return",
          fullpath |-> IF fd_to_path(env, dirfd) = ReadlinkFails THEN <<>>
                       ELSE fd_to_path(env, dirfd)]
    ELSE IF CharAt(pathname, 0) # "/" /\ CharAt(pathname, 0) # "~"
    THEN LET dir == IF dirfd = AT_FDCWD THEN env.cwd ELSE fd_to_path(env, dirfd)
         IN IF dir = ReadlinkFails
            THEN [status |-> "ub", fullpath |-> pathname]
            ELSE IF Len(dir) = 0
            THEN [status |-> "fatal", fullpath |-> <<>>]
            ELSE [status |-> "resolve", fullpath |-> dir \o <<"/">> \o pathname]
    ELSE [status |-> "resolve", fullpath |-> pathname]

\* normalize_path(pathname, oflags) of bxl_observer.hpp.
normalize_path(env, pathname) == normalize_path_at(env, AT_FDCWD, pathname)

\* report_access_at up to its call of report_access(..., fullpath, flags):
\* the path it builds, status "fatal" when the directory is not found.
report_access_at(env, dirfd, pathname) ==
    LET dir == IF dirfd = AT_FDCWD THEN env.cwd ELSE fd_to_path(env, dirfd)
        len == IF dir = ReadlinkFails THEN -1 ELSE Len(dir)
    IN IF len <= 0
       THEN [status |-> "fatal", fullpath |-> <<>>]
       ELSE normalize_path(env, dir \o <<"/">> \o pathname)

\* Mutant of ExecFirstReport: the process name is not reported up front.
ExecFirstReport_Deferred(log, procName) == log

\* report_exec's first statement: procName reported as is.
ExecFirstReport(log, procName) == log \o report_access("Exec", procName)

ObsCall(op, procName, dirfd, pathname, flags) ==
    [op |-> op, procName |-> procName, dirfd |-> dirfd, pathname |-> pathname,
     flags |-> flags]

NoObsCall == ObsCall("idle", <<>>, AT_FDCWD, <<>>, {})

\* followFinalSymlink = (oflags & O_NOFOLLOW) == 0
FollowFinalSymlink(flags) == O_NOFOLLOW \notin flags

\* Entering resolve_path, or ending the call, as the set-up says. On a path
\* that does not start with a slash resolve_path's assert fails, and without
\* asserts find_prev_slash reads before the buffer.
EnterResolve(setup) ==
    /\ fullpath' = setup.fullpath
    /\ IF setup.status = "resolve" /\ CharAt(setup.fullpath, 0) = "/"
       THEN pFullpath' = 1 /\ obsPc' = "resolve_path"
       ELSE /\ pFullpath' = 0
            /\ IF setup.status \in {"resolve", "ub"}
               THEN obsPc' \in {"assert_failed", "ub"}
               ELSE obsPc' = IF setup.status = "fatal" THEN "fatal" ELSE "done"

report_exec ==
    /\ obsPc = "call" /\ obsCall.op = "report_exec"
    /\ obsLog' = ExecFirstReport(obsLog, obsCall.procName)
    /\ EnterResolve(normalize_path(obsEnv, obsCall.pathname))
    /\ UNCHANGED <<obsEnv, obsCall, splitVars, shimVars, sendVars, ctorVars>>

ReportAccessAt ==
    /\ obsPc = "call" /\ obsCall.op = "report_access_at"
    /\ EnterResolve(report_access_at(obsEnv, obsCall.dirfd, obsCall.pathname))
    /\ UNCHANGED <<obsEnv, obsCall, obsLog, splitVars, shimVars, sendVars, ctorVars>>

NormalizePathAt ==
    /\ obsPc = "call" /\ obsCall.op = "normalize_path_at"
    /\ EnterResolve(normalize_path_at(obsEnv, obsCall.dirfd, obsCall.pathname))
    /\ UNCHANGED <<obsEnv, obsCall, obsLog, splitVars, shimVars, sendVars, ctorVars>>

resolve_path ==
    /\ obsPc = "resolve_path"
    /\ LET r == ResolveStep(fullpath, pFullpath, FollowFinalSymlink(obsCall.flags),
                            obsEnv.links)
       IN /\ fullpath' = r.fullpath
          /\ pFullpath' = r.pFullpath
          /\ obsLog' = IF Len(obsLog) < MaxLogLen THEN obsLog \o r.log ELSE obsLog
          /\ obsPc' = IF r.done THEN "resolved" ELSE "resolve_path"
    /\ UNCHANGED <<obsEnv, obsCall, splitVars, shimVars, sendVars, ctorVars>>

\* After resolve_path: the reporting entry points report the path, and
\* normalize_path_at returns it.
ReportResolved ==
    /\ obsPc = "resolved"
    /\ obsLog' = IF obsCall.op = "normalize_path_at" THEN obsLog
                 ELSE obsLog \o report_access(
                          IF obsCall.op = "report_exec" THEN "Exec" ELSE "Open", fullpath)
    /\ obsPc' = "done"
    /\ UNCHANGED <<obsEnv, obsCall, fullpath, pFullpath, splitVars, shimVars, sendVars, ctorVars>>

(***************************************************************************)
(* Construction of the observer: BxlObserver(), InitFam, InitLogFile.      *)
(* ctor.env is the environment at construction: the texts of               *)
(* __BUILDXL_ROOT_PID, __BUILDXL_FAM_PATH and __BUILDXL_LOG_PATH (NULL     *)
(* when unset), whether the manifest file opens, and whether the sandbox   *)
(* tracks the root process.                                                *)
(***************************************************************************)
\* atoi: leading white space, an optional sign, then the leading digits; 0
\* when there are none. No error is reported.
atoi(s) ==
    LET start == MinOf({i \in 1..Len(s) : s[i] \notin Whitespace} \cup {Len(s) + 1})
        signed == start <= Len(s) /\ s[start] \in {"-", "+"}
        magnitude == wtoiFrom(s, IF signed THEN start + 1 ELSE start, 0)
    IN IF signed /\ s[start] = "-" THEN 0 - magnitude ELSE magnitude

\* `str && *str`
IsSet(str) == str # NULL /\ str # <<>>

CtorEnv(rootPidStr, famPath, famFile, tracks, logPath) ==
    [rootPidStr |-> rootPidStr, famPath |-> famPath, famFile |-> famFile,
     tracks |-> tracks, logPath |-> logPath]

CtorState(env, pc, rootPid, sandbox, logFile, stderr) ==
    [env |-> env, pc |-> pc, rootPid_ |-> rootPid, sandbox_ |-> sandbox,
     logFile_ |-> logFile, stderr |-> stderr]

NoCtor == CtorState(CtorEnv(NULL, NULL, "ok", TRUE, NULL), "idle", 0, FALSE, <<>>, <<>>)

\* BxlObserver::BxlObserver up to its call of InitFam.
BxlObserver ==
    /\ ctor.pc = "BxlObserver"
    /\ ctor' = [ctor EXCEPT
           !.rootPid_ = IF IsSet(ctor.env.rootPidStr) THEN atoi(ctor.env.rootPidStr) ELSE -1,
           !.pc = "InitFam"]
    /\ UNCHANGED <<splitVars, shimVars, sendVars, obsVars>>

\* InitFam: without a manifest path it prints to stderr and returns; the
\* sandbox is created only after the manifest is read.
InitFam ==
    /\ ctor.pc = "InitFam"
    /\ ctor' =
          IF ~IsSet(ctor.env.famPath)
          THEN [ctor EXCEPT !.stderr = <<"ERROR: Env var not set">>, !.pc = "InitLogFile"]
          ELSE IF ctor.env.famFile = "missing"
          THEN [ctor EXCEPT !.pc = "fatal"]
          ELSE IF ~ctor.env.tracks
          THEN [ctor EXCEPT !.sandbox_ = TRUE, !.pc = "fatal"]
          ELSE [ctor EXCEPT !.sandbox_ = TRUE, !.pc = "InitLogFile"]
    /\ UNCHANGED <<splitVars, shimVars, sendVars, obsVars>>

InitLogFile ==
    /\ ctor.pc = "InitLogFile"
    /\ ctor' = [ctor EXCEPT
           !.logFile_ = IF IsSet(ctor.env.logPath) THEN ctor.env.logPath ELSE <<>>,
           !.pc = "constructed"]
    /\ UNCHANGED <<splitVars, shimVars, sendVars, obsVars>>

(***************************************************************************)
(* Idle values of the parts a specification does not exercise.             *)
(***************************************************************************)
SplitIdle == splitCall = [line |-> <<>>, out |-> NoSplit]

ShimIdle ==
    /\ shimCfg = ShimCfg(NULL, MatchesNull, FALSE, FALSE)
    /\ minParEnv = NULL
    /\ g_ParsedMinParallelism = FALSE
    /\ g_MinParallelism = 0
    /\ gmCalls = <<>>
    /\ rspFile = <<>>
    /\ shimCall = NoCall

SendIdle ==
    /\ channel = <<>>
    /\ sendCall = NoSend

CtorIdle == ctor = NoCtor

ObsIdle ==
    /\ obsEnv = ObsEnv(<<>>, {})
    /\ obsCall = NoObsCall
    /\ obsPc = "idle"
    /\ fullpath = <<>>
    /\ pFullpath = 0
    /\ obsLog = <<>>

(***************************************************************************)
(* SpecSplit: FindApplicationNameFromCommandLine on every command line of  *)
(* up to MaxLineLen characters over SplitAlphabet.                         *)
(***************************************************************************)
SplitAlphabet == {"a", " ", "\"", "\\", "\t"}

SplitInit ==
    /\ \E line \in SeqsUpTo(SplitAlphabet, MaxLineLen) :
          splitCall = [line |-> line, out |-> NoSplit]
    /\ ShimIdle /\ SendIdle /\ ObsIdle /\ CtorIdle

Split ==
    /\ splitCall.out.status = "none"
    /\ \E out \in FindApplicationNameFromCommandLine(splitCall.line) :
          splitCall' = [splitCall EXCEPT !.out = out]
    /\ UNCHANGED <<shimVars, sendVars, obsVars, ctorVars>>

SplitNext == Split

SpecSplit == SplitInit /\ [][SplitNext]_vars

(***************************************************************************)
(* SpecShim: MaybeInjectSubstituteProcessShim under every configuration    *)
(* of ShimInits.                                                           *)
(***************************************************************************)
ShimInit ==
    /\ \E i \in ShimInits :
          /\ shimCfg = i.cfg
          /\ minParEnv = i.env
          /\ rspFile = i.file
          /\ \E in \in i.inputs : shimCall = PendingCall(in[1], in[2])
    /\ g_ParsedMinParallelism = FALSE
    /\ g_MinParallelism = 0
    /\ gmCalls = <<>>
    /\ SplitIdle /\ SendIdle /\ ObsIdle /\ CtorIdle

ShimNext ==
    /\ MaybeInjectSubstituteProcessShim(shimCall.lpApplicationName, shimCall.lpCommandLine)
    /\ UNCHANGED <<splitVars, sendVars, obsVars, ctorVars>>

SpecShim == ShimInit /\ [][ShimNext]_vars

(***************************************************************************)
(* Claims about the shim injector.                                         *)
(***************************************************************************)
ShimCallEnded == shimCall.status \notin {"idle", "pending"}

\* The part of a path up to and including its last backslash.
DirectoryPart(path) ==
    LET seps == {i \in 1..Len(path) : path[i] = "\\"}
    IN IF seps = {} THEN <<>> ELSE SubSeq(path, 1, MaxOf(seps))

\* The part of a path after its last backslash.
BaseName(path) ==
    LET seps == {i \in 1..Len(path) : path[i] = "\\"}
    IN IF seps = {} THEN path ELSE SubSeq(path, MaxOf(seps) + 1, Len(path))

\* C1: whenever the injector shims, Real_CreateProcessW gets applicationName =
\* the shim path when replaceCommandNameForTrackedBuildEngine is false and the
\* shim's directory + the command's basename when it is true, and commandLine
\* = "<command>" <args>.
C1_InjectShimArguments ==
    shimCall.invoked # <<>> =>
        LET inv == shimCall.invoked[1]
            command == shimCall.split.command
            args == shimCall.decision.commandArgs
        IN /\ inv.lpApplicationName =
                 (IF shimCall.decision.replaceCommandNameForTrackedBuildEngine
                  THEN DirectoryPart(shimCfg.shimPath) \o BaseName(command)
                  ELSE shimCfg.shimPath)
           /\ inv.lpCommandLine = <<"\"">> \o command \o <<"\"", " ">> \o args

\* The table of the plugin filter: the decision from whether the command
\* matched a list entry and what the plugin returned.
PluginTable(all, noMatches, processMatch, pluginMatch) ==
    IF noMatches
    THEN (IF all THEN ~pluginMatch ELSE pluginMatch)
    ELSE (IF all THEN ~processMatch /\ ~pluginMatch ELSE processMatch \/ pluginMatch)

PluginCase ==
    /\ shimCall.status = "returned"
    /\ shimCall.split.status = "ok"
    /\ shimCfg.plugin
    /\ ~shimCall.decision.heuristic

\* C3: with a plugin configured and the compiler heuristic not triggered,
\* ShouldSubstituteShim returns the entry of the plugin polarity table.
C3_PluginPolarityTable ==
    PluginCase =>
        shimCall.decision.result =
            PluginTable(shimCfg.shimAllProcesses,
                        shimCfg.matches.null \/ shimCfg.matches.list = <<>>,
                        FoundMatch(shimCfg.matches.list, shimCall.split.command,
                                   shimCall.split.commandArgs),
                        shimCall.pluginRet)

\* C3 witness: the exclusive reading with no matches, the plugin returned
\* false and the shim was injected.
C3_Witness ==
    /\ PluginCase
    /\ shimCfg.shimAllProcesses
    /\ shimCfg.matches.list = <<>>
    /\ ~shimCall.pluginRet
    /\ shimCall.injectedShim = TRUE

\* The response file's text: UTF-16LE after the byte-order mark, the bytes
\* themselves without one.
ResponseText(bytes) ==
    IF HasBom(bytes)
    THEN [i \in 1..((Len(bytes) - 2) \div 2) |-> WideUnit(bytes[2 * i + 1], bytes[2 * i + 2])]
    ELSE bytes

CompilerCase ==
    /\ ShimCallEnded
    /\ shimCall.split.status = "ok"
    /\ shimCfg.shimPath # NULL
    /\ ~shimCfg.shimAllProcesses
    /\ FoundMatch(shimCfg.matches.list, shimCall.split.command, shimCall.split.commandArgs)
    /\ EndsWithClExe(shimCall.split.command)

\* C7: for a process-matched cl.exe command with shimAllProcesses = false and
\* numInputs = max(1, patterns in the arguments + patterns in the response
\* file): below minParallelism the answer is false; from minParallelism on it
\* is true and the @token is replaced by the text of the response file, with
\* and without a byte-order mark.
C7_CompilerHeuristic ==
    CompilerCase =>
        LET args == shimCall.split.commandArgs
            rsp == ResponseFileArg(args)
            text == ResponseText(ReadResponseFile(rsp.path, rspFile))
            counted == CountInputs(args) + (IF rsp.start = npos THEN 0 ELSE CountInputs(text))
            numInputs == IF counted < 1 THEN 1 ELSE counted
        IN /\ shimCall.status = "returned"
           /\ numInputs < g_MinParallelism => shimCall.injectedShim = FALSE
           /\ numInputs >= g_MinParallelism =>
                 /\ shimCall.injectedShim = TRUE
                 /\ rsp.start # npos =>
                       shimCall.decision.commandArgs =
                           SubSeq(args, 1, rsp.start) \o text
                               \o SubSeq(args, rsp.end + 1, Len(args))

\* C8: every call returns; injectedShim is true exactly when a shim path is
\* configured, a command line or application name is given and the decision
\* is to shim; false comes with a FALSE return and no process creation, true
\* with exactly one creation.
C8_InjectedShimContract ==
    ShimCallEnded =>
        /\ shimCall.status = "returned"
        /\ shimCall.injectedShim =
              (/\ shimCfg.shimPath # NULL
               /\ (shimCall.lpCommandLine # NULL \/ shimCall.lpApplicationName # NULL)
               /\ shimCall.decision.result)
        /\ shimCall.injectedShim = FALSE => shimCall.ret = FALSE /\ shimCall.invoked = <<>>
        /\ shimCall.injectedShim = TRUE => Len(shimCall.invoked) = 1

(***************************************************************************)
(* Claims about FindApplicationNameFromCommandLine.                        *)
(***************************************************************************)
NoWhitespace(s) == \A i \in 1..Len(s) : s[i] \notin Whitespace

NoQuote(s) == \A i \in 1..Len(s) : s[i] # "\""

\* A line whose command token is followed by no space: an unquoted line
\* without whitespace, or "quoted"rest with rest non-empty and without space.
UnquotedNoSpace(line) == Len(line) > 0 /\ NoWhitespace(line) /\ NoQuote(line)

QuotedNoSpace(line) ==
    /\ Len(line) > 2
    /\ line[1] = "\""
    /\ \E q \in 2..(Len(line) - 1) :
          /\ line[q] = "\""
          /\ NoQuote(SubSeq(line, 2, q - 1))
          /\ ~trim_end_reads_before_buffer(SubSeq(line, 2, q - 1))
          /\ NoQuote(SubSeq(line, q + 1, Len(line)))
          /\ NoWhitespace(SubSeq(line, q + 1, Len(line)))

WithoutQuotes(line) == SelectSeq(line, LAMBDA c : c # "\"")

\* C4: on such a line the function returns normally, command is the token
\* without its quotes and commandArgs is empty.
C4_NoSpaceAfterCommand ==
    (/\ splitCall.out.status # "none"
     /\ UnquotedNoSpace(splitCall.line) \/ QuotedNoSpace(splitCall.line))
    => /\ splitCall.out.status = "ok"
       /\ splitCall.out.commandArgs = <<>>
       /\ \E t \in trim_inplace(WithoutQuotes(splitCall.line)) :
             splitCall.out.command = t.str

(***************************************************************************)
(* SpecSend: a process sending reports until a fatal error ends it or the  *)
(* channel holds MaxRecords chunks.                                        *)
(***************************************************************************)
MaxRecords == 2

SendMargin == 2

\* Lengths of formatted messages: short ones and those around the limit.
FormattedLengths ==
    {1, 2} \cup ((PIPE_BUF - PrefixLength - SendMargin)..(PIPE_BUF - PrefixLength + SendMargin))

Reports ==
    {[operation |-> "kOpOpen", formatted |-> n] : n \in FormattedLengths}
        \cup {[operation |-> kOpProcessTreeCompleted, formatted |-> 1]}

\* What the channel does to one Send of bufsiz bytes: real_open missing,
\* real_open failing, or real_write returning written.
ChannelOutcomes(bufsiz) ==
    {[hasOpen |-> FALSE, openOk |-> TRUE, written |-> bufsiz],
     [hasOpen |-> TRUE, openOk |-> FALSE, written |-> bufsiz]}
        \cup {[hasOpen |-> TRUE, openOk |-> TRUE, written |-> w] :
                w \in {-1, 0, 1, bufsiz - 1, bufsiz}}

SendInit ==
    /\ SendIdle
    /\ SplitIdle /\ ShimIdle /\ ObsIdle /\ CtorIdle

SendReportCall(report, o) ==
    /\ sendCall.status # "fatal"
    /\ Len(channel) < MaxRecords
    /\ LET r == SendReport(report, o.hasOpen, o.openOk, o.written)
       IN /\ sendCall' = [status |-> r.status, reason |-> r.reason,
                          appended |-> r.appended, report |-> report,
                          hasOpen |-> o.hasOpen, openOk |-> o.openOk,
                          written |-> o.written, before |-> channel]
          /\ channel' = channel \o r.appended
    /\ UNCHANGED <<splitVars, shimVars, obsVars, ctorVars>>

SendNext ==
    \E report \in Reports :
        \E o \in ChannelOutcomes(report.formatted + PrefixLength) :
            SendReportCall(report, o)

SpecSend == SendInit /\ [][SendNext]_vars

(***************************************************************************)
(* Claims about Send and SendReport.                                       *)
(***************************************************************************)
\* The call got as far as Send's use of the channel.
SendUsedChannel == sendCall.reason \in {"open", "short_write", "sent"}

FramedSize == sendCall.report.formatted + PrefixLength

\* C2: every channel error in Send is fatal (open failure, write error,
\* short write), and Send returns success only when every byte was written.
C2_ChannelErrorsFatal ==
    SendUsedChannel =>
        /\ (~sendCall.openOk \/ sendCall.written < 0 \/ sendCall.written < FramedSize)
              => sendCall.status = "fatal"
        /\ sendCall.status = "true" => sendCall.written = FramedSize

SendReportEnded ==
    /\ sendCall.status # "idle"
    /\ sendCall.report.operation # kOpProcessTreeCompleted

ChannelWorks ==
    sendCall.hasOpen /\ sendCall.openOk /\ sendCall.written = FramedSize

WholeRecord == <<[prefix |-> sendCall.report.formatted, bytes |-> FramedSize]>>

\* C5 as stated: a framed size of at most PIPE_BUF (PIPE_BUF included) is
\* appended with prefix = payload length; a larger one is fatal with nothing
\* written. (Stated for a channel that works.)
C5_Original ==
    (SendReportEnded /\ ChannelWorks) =>
        /\ FramedSize <= PIPE_BUF =>
              sendCall.status = "true" /\ channel = sendCall.before \o WholeRecord
        /\ FramedSize > PIPE_BUF =>
              sendCall.status = "fatal" /\ channel = sendCall.before

\* C5 amended: a framed size below PIPE_BUF is handed to one write with
\* prefix = payload length, and a complete write appends exactly that record;
\* a framed size of PIPE_BUF or more is fatal with nothing written.
C5_FramedBelowPipeBuf ==
    SendReportEnded =>
        /\ (FramedSize < PIPE_BUF /\ ChannelWorks) =>
              sendCall.status = "true" /\ channel = sendCall.before \o WholeRecord
        /\ (FramedSize < PIPE_BUF /\ sendCall.appended # <<>>) =>
              sendCall.appended[1].prefix = sendCall.report.formatted
        /\ FramedSize >= PIPE_BUF =>
              sendCall.status = "fatal" /\ channel = sendCall.before

\* C5 witnesses: the largest record that is sent, and the fatal boundary.
C5_Witness ==
    /\ SendReportEnded
    /\ FramedSize = PIPE_BUF - 1
    /\ sendCall.status = "true"
    /\ channel = sendCall.before \o WholeRecord
    /\ sendCall.before # <<>>

(***************************************************************************)
(* SpecObs: one call of an observer entry point, on every name of up to    *)
(* MaxNameLen characters over PathAlphabet, in every environment of        *)
(* ObsEnvs.                                                                *)
(***************************************************************************)
MaxNameLen == 3

PathAlphabet == {"/", ".", "a"}

Names == SeqsUpTo(PathAlphabet, MaxNameLen) \cup {<<"~">>}

Path_a == <<"/", "a">>

Path_a_a == <<"/", "a", "/", "a">>

\* No link; an absolute target ending in a slash; a relative target with dot
\* segments; a link to itself.
LinkSets ==
    { {},
      {[from |-> Path_a_a, to |-> <<"/", "b", "/">>]},
      {[from |-> Path_a_a, to |-> <<".", ".", "/", "a", "/", ".", "/", "b">>]},
      {[from |-> Path_a_a, to |-> <<"a">>]} }

ObsEnvs == {ObsEnv(cwd, links) : cwd \in {Path_a, <<>>}, links \in LinkSets}

ObsCalls ==
    {ObsCall("report_exec", pn, AT_FDCWD, f, {}) :
        pn \in {<<"a">>, <<"/", ".", "/", "a">>}, f \in Names}
    \cup
    {ObsCall(op, <<>>, fd, n, fl) :
        op \in {"report_access_at", "normalize_path_at"},
        fd \in {AT_FDCWD, 3, 4, 5}, n \in Names, fl \in {{}, {O_NOFOLLOW}}}
    \cup
    {ObsCall("normalize_path_at", <<>>, fd, NULL, {}) : fd \in {3, 4, 5}}

ObsInit ==
    /\ obsEnv \in ObsEnvs
    /\ obsCall \in ObsCalls
    /\ obsPc = "call"
    /\ fullpath = <<>>
    /\ pFullpath = 0
    /\ obsLog = <<>>
    /\ SplitIdle /\ ShimIdle /\ SendIdle /\ CtorIdle

ObsNext ==
    \/ report_exec
    \/ ReportAccessAt
    \/ NormalizePathAt
    \/ resolve_path
    \/ ReportResolved

SpecObs == ObsInit /\ [][ObsNext]_vars

(***************************************************************************)
(* Claims about the observer.                                              *)
(***************************************************************************)
\* resolve_path run to its return: ResolveStep repeated from the position
\* after the leading slash; NoResult when it has not returned after `fuel`
\* iterations.
NoResult == <<"?">>

RECURSIVE ResolveRun(_, _, _, _, _)
ResolveRun(s, p, followFinalSymlink, links, fuel) ==
    LET r == ResolveStep(s, p, followFinalSymlink, links)
    IN IF r.done THEN r.fullpath
       ELSE IF fuel = 0 THEN NoResult
       ELSE ResolveRun(r.fullpath, r.pFullpath, followFinalSymlink, links, fuel - 1)

Canonicalized(path, flags) ==
    ResolveRun(path, 1, FollowFinalSymlink(flags), obsEnv.links, MaxLogLen)

IsAbsolute(path) == CharAt(path, 0) = "/"

\* The segments of an absolute path: the texts between its slashes, the one
\* after the last slash included.
SlashPositions(path) == {i \in 1..Len(path) : path[i] = "/"}

Segments(path) ==
    {SubSeq(path, i + 1, MinOf({j \in SlashPositions(path) \cup {Len(path) + 1} : j > i}) - 1) :
        i \in SlashPositions(path)}

HasSubstring(path, sub) ==
    \E i \in 1..(Len(path) - Len(sub) + 1) : SubSeq(path, i, i + Len(sub) - 1) = sub

\* resolve_path is only entered on an absolute path (EnterResolve).
ResolvePathReturned == obsPc = "resolved"

\* C6: for every absolute input path and both values of followFinalSymlink,
\* when resolve_path returns the path is absolute, contains none of /./, /../
\* and //, and, unless it is the root path, has no segment equal to ".", ".."
\* or the empty string, its final segment included.
C6_NoResidualDotSegments ==
    ResolvePathReturned =>
        /\ IsAbsolute(fullpath)
        /\ ~HasSubstring(fullpath, <<"/", ".", "/">>)
        /\ ~HasSubstring(fullpath, <<"/", ".", ".", "/">>)
        /\ ~HasSubstring(fullpath, <<"/", "/">>)
        /\ fullpath # <<"/">> =>
              Segments(fullpath) \cap {<<".">>, <<".", ".">>, <<>>} = {}

Events == SelectSeq(obsLog, LAMBDA e : e.kind = "event")

FirstIndex(kinds) == MinOf({i \in 1..Len(obsLog) : obsLog[i].kind \in kinds} \cup {Len(obsLog) + 1})

\* C9: report_exec produces first an Exec event whose path is procName as
\* received, before any symlink probe or ReadLink event of canonicalizing
\* file, and last an Exec event whose path is the canonicalized file.
C9_ExecReportingOrder ==
    (obsCall.op = "report_exec" /\ obsPc # "call") =>
        /\ Events # <<>>
        /\ Events[1] = LogEntry("event", "Exec", obsCall.procName)
        /\ FirstIndex({"event"}) < FirstIndex({"readlink"})
        /\ \A i \in 2..Len(Events) : Events[i].type \in {"ReadLink", "Exec"}
        /\ obsPc = "done" =>
              LET file == IF IsAbsolute(obsCall.pathname) THEN obsCall.pathname
                          ELSE obsEnv.cwd \o <<"/">> \o obsCall.pathname
              IN /\ Len(Events) >= 2
                 /\ obsLog[Len(obsLog)] =
                       LogEntry("event", "Exec", Canonicalized(file, obsCall.flags))
                 /\ \A i \in 2..(Len(Events) - 1) : Events[i].type = "ReadLink"

\* A report_exec that resolved a link on the way and reported the file.
C9_Witness ==
    /\ obsCall.op = "report_exec" /\ obsPc = "done"
    /\ Len(Events) >= 3
    /\ Events[2].type = "ReadLink"
    /\ Events[Len(Events)].path # obsCall.pathname

\* C10: report_access_at reports, for an absolute name, the canonicalization
\* of the name alone whatever dirfd and the current directory are, and for a
\* relative name the canonicalization of the name joined to the current
\* directory (dirfd is AT_FDCWD) or to the path of dirfd.
C10_ReportAccessAtPath ==
    (obsCall.op = "report_access_at" /\ obsPc = "done") =>
        LET dir == IF obsCall.dirfd = AT_FDCWD THEN obsEnv.cwd
                   ELSE fd_to_path(obsEnv, obsCall.dirfd)
            name == obsCall.pathname
        IN obsLog[Len(obsLog)].path =
              IF IsAbsolute(name) THEN Canonicalized(name, obsCall.flags)
              ELSE Canonicalized(dir \o <<"/">> \o name, obsCall.flags)

(***************************************************************************)
(* SpecObsFair: SpecObs with the calling thread always running on: a step  *)
(* of the entry point that can be taken is taken.                          *)
(***************************************************************************)
SpecObsFair == ObsInit /\ [][ObsNext]_vars /\ WF_vars(ObsNext)

\* C11: resolve_path terminates on every input and every file system, one
\* with a symbolic-link cycle included: once entered it returns or ends in a
\* LoopDetected failure, and does not loop for ever.
C11_ResolvePathTerminates ==
    (obsPc = "resolve_path") ~> (obsPc \in {"resolved", "LoopDetected"})

(***************************************************************************)
(* SpecCtor: one construction of the observer in every environment of      *)
(* CtorEnvs: root pid texts of up to MaxEnvLen characters over             *)
(* EnvAlphabet, unset and empty included.                                  *)
(***************************************************************************)
MaxEnvLen == 2

EnvAlphabet == {"1", "2", "-", "x"}

EnvTexts == {NULL} \cup SeqsUpTo(EnvAlphabet, MaxEnvLen)

CtorEnvs ==
    {CtorEnv(pid, fam, file, tracks, log) :
        pid \in EnvTexts, fam \in {NULL, <<>>, <<"f">>},
        file \in {"ok", "missing"}, tracks \in BOOLEAN,
        log \in {NULL, <<"l">>}}

CtorInit ==
    /\ \E env \in CtorEnvs : ctor = CtorState(env, "BxlObserver", 0, FALSE, <<>>, <<>>)
    /\ SplitIdle /\ ShimIdle /\ SendIdle /\ ObsIdle

CtorNext ==
    \/ BxlObserver
    \/ InitFam
    \/ InitLogFile

SpecCtor == CtorInit /\ [][CtorNext]_vars

CtorEnded == ctor.pc \in {"constructed", "fatal"}

\* A decimal integer: an optional minus sign and then digits only.
IsDecimalInteger(s) ==
    LET digits == IF s # <<>> /\ s[1] = "-" THEN Tail(s) ELSE s
    IN digits # <<>> /\ \A i \in 1..Len(digits) : IsDigit(digits[i])

ConfigError ==
    \/ ~IsSet(ctor.env.famPath)
    \/ ctor.env.famFile = "missing"
    \/ IsSet(ctor.env.rootPidStr) /\ ~IsDecimalInteger(ctor.env.rootPidStr)

\* C12: initialization terminates the process fatally on every
\* configuration error: __BUILDXL_FAM_PATH unset or empty, the manifest file
\* not openable, or __BUILDXL_ROOT_PID set to text that is not a decimal
\* integer; an absent __BUILDXL_ROOT_PID gives root pid -1.
C12_ConfigErrorsFatal ==
    CtorEnded =>
        /\ ConfigError => ctor.pc = "fatal"
        /\ (ctor.env.rootPidStr = NULL /\ ctor.pc = "constructed") => ctor.rootPid_ = -1

\* `*pathname != '/' && *pathname != '~'`, on a pathname that is given.
IsRelativeName(pathname) ==
    pathname # NULL /\ CharAt(pathname, 0) \notin {"/", "~"}

DirfdLookupFails ==
    /\ obsCall.dirfd # AT_FDCWD
    /\ fd_to_path(obsEnv, obsCall.dirfd) \in {ReadlinkFails, <<>>}

\* C13: whenever the fd-to-path lookup of an explicitly given dirfd fails
\* (-1 or length 0) while a relative name is being resolved, the process
\* terminates fatally before any path is built or event emitted, in
\* report_access_at and in normalize_path_at alike.
C13_DirfdLookupFatal ==
    (/\ obsCall.op \in {"report_access_at", "normalize_path_at"}
     /\ obsPc # "call"
     /\ DirfdLookupFails
     /\ IsRelativeName(obsCall.pathname)) =>
        obsPc = "fatal" /\ fullpath = <<>> /\ obsLog = <<>>

\* No leading and no trailing whitespace.
Trimmed(s) == s = <<>> \/ (s[1] \notin Whitespace /\ s[Len(s)] \notin Whitespace)

\* The lines InjectShim builds: "<cmd>" <args> with cmd non-empty, without a
\* double quote, and cmd and args without leading or trailing whitespace.
RoundTripLines ==
    {FullCommandLine(cmd, args) :
        cmd \in {c \in SeqsUpTo(SplitAlphabet, MaxLineLen - 3) :
                    c # <<>> /\ NoQuote(c) /\ Trimmed(c)},
        args \in {a \in SeqsUpTo(SplitAlphabet, MaxLineLen - 4) : Trimmed(a)}}

RoundTripCommand(line) == SubSeq(line, 2, find(line, "\"", 1))

RoundTripArgs(line) == SubSeq(line, find(line, "\"", 1) + 3, Len(line))

\* C14: splitting the line "<cmd>" <args> that InjectShim builds returns
\* command = cmd and commandArgs = args exactly, for every such cmd and every
\* args, the empty one included.
C14_SplitRoundTrip ==
    (splitCall.out.status # "none" /\ splitCall.line \in RoundTripLines) =>
        splitCall.out = SplitOk(RoundTripCommand(splitCall.line),
                                RoundTripArgs(splitCall.line))

\* A command whose name ends in Tracker.exe, whatever the case.
EndsWithTrackerExe(command) ==
    /\ Len(command) >= Len(Name_Tracker_exe)
    /\ wcsicmp_equal(substr_from(command, Len(command) - Len(Name_Tracker_exe)),
                     Name_Tracker_exe)

AtLeastOne(n) == IF n < 1 THEN 1 ELSE n

\* A process-matched command without plugin, shimAllProcesses = false, no
\* response file among the arguments, and __ANYBUILD_MINPARALLELISM a
\* decimal number.
CountingCase ==
    /\ ShimCallEnded
    /\ shimCall.split.status = "ok"
    /\ shimCfg.shimPath # NULL
    /\ ~shimCfg.shimAllProcesses /\ ~shimCfg.plugin
    /\ FoundMatch(shimCfg.matches.list, shimCall.split.command, shimCall.split.commandArgs)
    /\ ResponseFileArg(shimCall.split.commandArgs).start = npos
    /\ minParEnv # NULL /\ Len(minParEnv) < MinParallelismStrSize
    /\ \A i \in 1..Len(minParEnv) : IsDigit(minParEnv[i])

TrackerCase ==
    /\ CountingCase
    /\ EndsWithTrackerExe(shimCall.split.command)
    /\ wcsstr(shimCall.split.commandArgs, Name_cl_exe, 0) # npos

\* C15: the compiler heuristic is applied to a process-matched command
\* ending in Tracker.exe whose arguments contain cl.exe: inputs are counted
\* from the position of cl.exe on and the decision is numInputs >=
\* minParallelism; for a command ending in cl.exe the count starts at index 0.
C15_TrackerHeuristic ==
    LET args == shimCall.split.commandArgs
        window == substr_from(args, wcsstr(args, Name_cl_exe, 0))
    IN /\ TrackerCase =>
             /\ shimCall.status = "returned"
             /\ shimCall.injectedShim = (AtLeastOne(CountInputs(window)) >= wtoi(minParEnv))
       /\ (CountingCase /\ EndsWithClExe(shimCall.split.command)) =>
             /\ shimCall.status = "returned"
             /\ shimCall.injectedShim = (AtLeastOne(CountInputs(args)) >= wtoi(minParEnv))

OptOutCase ==
    /\ shimCall.status = "returned"
    /\ shimCall.split.status = "ok"
    /\ shimCall.decision.status = "ok"
    /\ shimCfg.shimPath # NULL
    /\ shimCfg.shimAllProcesses /\ ~shimCfg.plugin
    /\ ~shimCfg.matches.null /\ shimCfg.matches.list # <<>>

\* C16: with shimAllProcesses = true, a non-empty match list and no plugin,
\* the match list is an opt-out list: ShouldSubstituteShim returns true
\* exactly for the commands that match no entry of the list.
C16_OptOutList ==
    OptOutCase =>
        shimCall.decision.result =
            ~FoundMatch(shimCfg.matches.list, shimCall.split.command,
                        shimCall.split.commandArgs)

(***************************************************************************)
(* SpecMinPar: up to MaxGetMinCalls calls of GetMinParallelism in one      *)
(* process, the environment variable changing between them.                *)
(***************************************************************************)
MaxGetMinCalls == 4

MinParInit ==
    /\ shimCfg = ShimCfg(Path_shim, MatchesList(MatchesCompiler), FALSE, FALSE)
    /\ minParEnv \in MinParEnvValues
    /\ g_ParsedMinParallelism = FALSE
    /\ g_MinParallelism = 0
    /\ gmCalls = <<>>
    /\ rspFile = <<>>
    /\ shimCall = NoCall
    /\ SplitIdle /\ SendIdle /\ ObsIdle /\ CtorIdle

GetMinParallelismCall ==
    /\ Len(gmCalls) < MaxGetMinCalls
    /\ \E gm \in GetMinParallelism(g_ParsedMinParallelism, g_MinParallelism, minParEnv) :
          /\ g_ParsedMinParallelism' = gm.parsed
          /\ g_MinParallelism' = gm.min
          /\ gmCalls' = Append(gmCalls, GetMinCall(gm, g_ParsedMinParallelism))
    /\ UNCHANGED <<shimCfg, minParEnv, rspFile, shimCall, splitVars, sendVars, obsVars, ctorVars>>

\* The process, or its parent before the next call, changes the variable.
SetEnvironmentVariable ==
    /\ Len(gmCalls) < MaxGetMinCalls
    /\ \E value \in MinParEnvValues \ {minParEnv} : minParEnv' = value
    /\ UNCHANGED <<shimCfg, g_ParsedMinParallelism, g_MinParallelism, gmCalls, rspFile,
                   shimCall, splitVars, sendVars, obsVars, ctorVars>>

MinParNext ==
    \/ GetMinParallelismCall
    \/ SetEnvironmentVariable

SpecMinPar == MinParInit /\ [][MinParNext]_vars

\* C17: in any sequence of GetMinParallelism calls the variable is read at
\* most once and every later call returns what the first call returned, even
\* if the variable changes in between, and also when at the first call it
\* was unset or longer than the buffer.
C17_ReadOnceAndCached ==
    /\ Cardinality({i \in 1..Len(gmCalls) : gmCalls[i].read}) <= 1
    /\ \A i \in 1..Len(gmCalls) : gmCalls[i].ret = gmCalls[1].ret

====
